---------------------------- MODULE Spec2Model ----------------------------
(***************************************************************************)
(* A model of helpspot/api.py: the HelpSpot client (HelpSpot), the call    *)
(* object it creates for a method name (HelpSpotAPI) and the urllib        *)
(* handler that decodes HTTP 400 replies (HelpSpotHandler).                *)
(*                                                                         *)
(* Text that the code transforms character by character (method names,     *)
(* URIs, credentials, keyword parameters) is a sequence of one-character   *)
(* strings.  Text the code only passes along or looks up (dictionary keys, *)
(* error descriptions, exception names) is a TLA+ string.                  *)
(***************************************************************************)
EXTENDS Integers, Sequences, FiniteSets, TLC

VARIABLES
    py,         \* major version of the interpreter the module was imported by
    clients,    \* the HelpSpot objects constructed so far
    opener,     \* urllib's process-wide opener (urllib.install_opener)
    invokers,   \* the HelpSpotAPI objects constructed so far
    resolved,   \* what the last attribute access on a client evaluated to
    last        \* the last call of a HelpSpotAPI object and how it ended

vars == <<py, clients, opener, invokers, resolved, last>>

-----------------------------------------------------------------------------
(* Bounds of the model. *)

\* the number of objects (clients and call objects) the process constructs
MaxObjects == 3

-----------------------------------------------------------------------------
(* Character tables. *)

\* The printable ASCII characters; Ascii[i] has code 31 + i.  (The grave
\* accent, code 96, cannot be written in a TLA+ string and is spelled out.)
Ascii ==
    <<" ","!","\"","#","$","%","&","'","(",")","*","+",",","-",".","/",
      "0","1","2","3","4","5","6","7","8","9",":",";","<","=",">","?","@",
      "A","B","C","D","E","F","G","H","I","J","K","L","M","N","O","P","Q",
      "R","S","T","U","V","W","X","Y","Z","[","\\","]","^","_","GRAVE",
      "a","b","c","d","e","f","g","h","i","j","k","l","m","n","o","p","q",
      "r","s","t","u","v","w","x","y","z","{","|","}","~">>

\* ord(c)
OrdTable ==
    [c \in {Ascii[i] : i \in 1..Len(Ascii)} |->
        31 + (CHOOSE i \in 1..Len(Ascii) : Ascii[i] = c)]

Ord(c) == OrdTable[c]

HexDigits == <<"0","1","2","3","4","5","6","7","8","9","A","B","C","D","E","F">>

B64Alphabet ==
    <<"A","B","C","D","E","F","G","H","I","J","K","L","M","N","O","P","Q",
      "R","S","T","U","V","W","X","Y","Z",
      "a","b","c","d","e","f","g","h","i","j","k","l","m","n","o","p","q",
      "r","s","t","u","v","w","x","y","z",
      "0","1","2","3","4","5","6","7","8","9","+","/">>

IsAlnum(c) == (Ord(c) >= 48 /\ Ord(c) <= 57) \/ (Ord(c) >= 65 /\ Ord(c) <= 90)
              \/ (Ord(c) >= 97 /\ Ord(c) <= 122)

-----------------------------------------------------------------------------
(* str methods used by the code. *)

\* s.replace(old, new, 1): only the first occurrence is replaced
ReplaceFirst(s, old, new) ==
    [i \in 1..Len(s) |->
        IF s[i] = old /\ (\A j \in 1..(i - 1) : s[j] # old) THEN new ELSE s[i]]

\* s.replace(old, new) for one-character old and new
Replace(s, old, new) == [i \in 1..Len(s) |-> IF s[i] = old THEN new ELSE s[i]]

\* s.startswith(prefix)
StartsWith(s, prefix) ==
    /\ Len(s) >= Len(prefix)
    /\ \A i \in 1..Len(prefix) : s[i] = prefix[i]

\* s.rstrip(c): drop every trailing occurrence of the character c
RECURSIVE RStrip(_, _)
RStrip(s, c) ==
    IF s # <<>> /\ s[Len(s)] = c THEN RStrip(SubSeq(s, 1, Len(s) - 1), c) ELSE s

-----------------------------------------------------------------------------
(* base64.b64encode *)

B64Group(bytes) ==
    LET n  == Len(bytes)
        b1 == bytes[1]
        b2 == IF n >= 2 THEN bytes[2] ELSE 0
        b3 == IF n >= 3 THEN bytes[3] ELSE 0
        w  == b1 * 65536 + b2 * 256 + b3
    IN  << B64Alphabet[(w \div 262144) + 1],
           B64Alphabet[((w \div 4096) % 64) + 1],
           IF n >= 2 THEN B64Alphabet[((w \div 64) % 64) + 1] ELSE "=",
           IF n >= 3 THEN B64Alphabet[(w % 64) + 1] ELSE "=" >>

RECURSIVE B64Bytes(_)
B64Bytes(bytes) ==
    IF bytes = <<>> THEN <<>>
    ELSE IF Len(bytes) <= 3 THEN B64Group(bytes)
    ELSE B64Group(SubSeq(bytes, 1, 3)) \o B64Bytes(SubSeq(bytes, 4, Len(bytes)))

\* s.encode('utf-8') of ASCII text, then base64.b64encode
b64encode(s) == B64Bytes([i \in 1..Len(s) |-> Ord(s[i])])

-----------------------------------------------------------------------------
(* urlencode *)

\* quote_plus of one character: letters, digits and "_.-" stay, a space
\* becomes "+", anything else becomes %XX
QuoteChar(c) ==
    IF IsAlnum(c) \/ c \in {"_", ".", "-"} THEN <<c>>
    ELSE IF c = " " THEN <<"+">>
    ELSE <<"%", HexDigits[(Ord(c) \div 16) + 1], HexDigits[(Ord(c) % 16) + 1]>>

RECURSIVE quote_plus(_)
quote_plus(s) ==
    IF s = <<>> THEN <<>> ELSE QuoteChar(Head(s)) \o quote_plus(Tail(s))

\* urlencode(kwargs): kwargs is the sequence of <<key, value>> pairs in the
\* dictionary's iteration order
RECURSIVE urlencode(_)
urlencode(kwargs) ==
    IF kwargs = <<>> THEN <<>>
    ELSE LET kv == quote_plus(kwargs[1][1]) \o <<"=">> \o quote_plus(kwargs[1][2])
         IN  IF Len(kwargs) = 1 THEN kv
             ELSE kv \o <<"&">> \o urlencode(Tail(kwargs))

-----------------------------------------------------------------------------
(* Module-level data of api.py. *)

\* the methods that are sent with POST
_POST_METHODS ==
    << <<"r","e","q","u","e","s","t",".","c","r","e","a","t","e">>,
       <<"r","e","q","u","e","s","t",".","u","p","d","a","t","e">>,
       <<"f","o","r","u","m","s",".","c","r","e","a","t","e","T","o","p","i","c">>,
       <<"f","o","r","u","m","s",".","c","r","e","a","t","e","P","o","s","t">>,
       <<"p","r","i","v","a","t","e",".","r","e","q","u","e","s","t",".","c","r","e","a","t","e">>,
       <<"p","r","i","v","a","t","e",".","r","e","q","u","e","s","t",".","u","p","d","a","t","e">>,
       <<"p","r","i","v","a","t","e",".","r","e","q","u","e","s","t",".","a","d","d","T","i","m","e","E","v","e","n","t">>,
       <<"p","r","i","v","a","t","e",".","r","e","q","u","e","s","t",".","d","e","l","e","t","e","T","i","m","e","E","v","e","n","t">>,
       <<"p","r","i","v","a","t","e",".","r","e","q","u","e","s","t",".","m","e","r","g","e">>,
       <<"p","r","i","v","a","t","e",".","r","e","q","u","e","s","t",".","u","n","s","u","b","s","c","r","i","b","e">> >>

\* the path appended to the client's URI
ApiPath == <<"/","a","p","i","/","i","n","d","e","x",".","p","h","p","?","m","e","t","h","o","d","=">>

OutputJson == <<"&","o","u","t","p","u","t","=","j","s","o","n">>

PrivatePrefix == <<"p","r","i","v","a","t","e",".">>

BasicPrefix == <<"B","a","s","i","c"," ">>

-----------------------------------------------------------------------------
(* Decoded JSON values: a dictionary is a function from keys to values, a  *)
(* list a sequence of values, and each value carries its Python type.      *)

JDict(f) == [t |-> "dict", v |-> f]
JList(q) == [t |-> "list", v |-> q]
JStr(x)  == [t |-> "str",  v |-> x]
JInt(n)  == [t |-> "int",  v |-> n]
JNull    == [t |-> "null", v |-> <<>>]

\* The result of evaluating an expression: exc is the class of the exception
\* it raised, or "" when it returned val.
Returns(x) == [exc |-> "", val |-> x]
Raises(e)  == [exc |-> e, val |-> JNull]

\* json.loads(text): a body is carried as its decoding, or as text that is
\* not JSON, which json.loads rejects with a ValueError
json_loads(body) ==
    IF body.parses THEN Returns(body.value) ELSE Raises("ValueError")

\* x[key] for a string key
GetKey(x, key) ==
    IF x.t = "dict"
    THEN IF key \in DOMAIN x.v THEN Returns(x.v[key]) ELSE Raises("KeyError")
    ELSE Raises("TypeError")

\* x[0]
GetFirst(x) ==
    IF x.t = "list"
    THEN IF Len(x.v) > 0 THEN Returns(x.v[1]) ELSE Raises("IndexError")
    ELSE IF x.t = "str"
    THEN IF Len(x.v) > 0 THEN Returns(JStr(<<x.v[1]>>)) ELSE Raises("IndexError")
    ELSE IF x.t = "dict" THEN Raises("KeyError")
    ELSE Raises("TypeError")

-----------------------------------------------------------------------------
(* class HelpSpotError *)

\* How a call ends: exc is "" when it returns val, and the class of the
\* exception otherwise; err_mesg and err_id are the HelpSpotError's fields.
Return(x) == [exc |-> "", val |-> x, err_mesg |-> JNull, err_id |-> JNull]
Raise(e)  == [exc |-> e, val |-> JNull, err_mesg |-> JNull, err_id |-> JNull]

HelpSpotError(err_mesg, err_id) ==
    [exc |-> "HelpSpotError", val |-> JNull, err_mesg |-> err_mesg, err_id |-> err_id]

-----------------------------------------------------------------------------
(* class HelpSpotHandler *)

UnknownError == JStr(<<"U","n","k","n","o","w","n"," ","H","e","l","p","S","p","o","t"," ","A","P","I"," ","e","r","r","o","r">>)

\* the exception the try block of http_error_400 ends with, "" when it ends
\* normally
DetailsExc(errs) ==
    LET error   == GetKey(errs, "error")
        details == GetFirst(error.val)
        mesg    == GetKey(details.val, "description")
        id      == GetKey(details.val, "id")
    IN  IF error.exc # "" THEN error.exc
        ELSE IF details.exc # "" THEN details.exc
        ELSE IF mesg.exc # "" THEN mesg.exc
        ELSE id.exc

\* http_error_400 reading errs['error'][-1] instead of errs['error'][0]
http_error_400_LastError(fp) ==
    LET errs == json_loads(fp)
    IN  IF errs.exc # "" THEN Raise(errs.exc)
        ELSE LET exc   == DetailsExc(errs.val)
                 error == GetKey(errs.val, "error").val
             IN  IF exc = ""
                 THEN HelpSpotError(GetKey(error.v[Len(error.v)], "description").val,
                                    GetKey(error.v[Len(error.v)], "id").val)
                 ELSE IF exc = "IndexError"
                 THEN HelpSpotError(UnknownError, JInt(0))
                 ELSE Raise(exc)

\* http_error_400 without its except clause
http_error_400_NoExcept(fp) ==
    LET errs == json_loads(fp)
    IN  IF errs.exc # "" THEN Raise(errs.exc)
        ELSE LET exc     == DetailsExc(errs.val)
                 details == GetFirst(GetKey(errs.val, "error").val).val
             IN  IF exc = ""
                 THEN HelpSpotError(GetKey(details, "description").val,
                                    GetKey(details, "id").val)
                 ELSE Raise(exc)

http_error_400(fp) ==
    LET errs == json_loads(fp)
    IN  IF errs.exc # "" THEN Raise(errs.exc)
        ELSE LET exc     == DetailsExc(errs.val)
                 details == GetFirst(GetKey(errs.val, "error").val).val
             IN  IF exc = ""
                 THEN HelpSpotError(GetKey(details, "description").val,
                                    GetKey(details, "id").val)
                 ELSE IF exc = "IndexError"
                 THEN HelpSpotError(UnknownError, JInt(0))
                 ELSE Raise(exc)

-----------------------------------------------------------------------------
(* class HelpSpotAPI *)

\* x in xs, for a list xs
InList(x, xs) == \E i \in 1..Len(xs) : xs[i] = x

\* '%s' % x: the text itself for a str, its repr for a bytes object
FormatS(x) ==
    IF x.type = "bytes" THEN <<"b", "'">> \o x.chars \o <<"'">> ELSE x.chars

\* base64.b64encode(s.encode('utf-8')).rstrip(): a str under Python 2, a
\* bytes object under Python 3
Authz(s) ==
    [type |-> IF py = 3 THEN "bytes" ELSE "str", chars |-> RStrip(b64encode(s), " ")]

HelpSpotAPI__init__(method, user, password, uri) ==
    LET name == Replace(method, "_", ".")
    IN  [method   |-> name,
         user     |-> user,
         password |-> password,
         authz    |-> Authz(user \o <<":">> \o password),
         uri      |-> RStrip(uri, "/") \o ApiPath,
         action   |-> IF InList(name, _POST_METHODS) THEN "POST" ELSE "GET"]

\* Python's None and a str, as the data argument of urlopen
None == [none |-> TRUE, data |-> <<>>]
Data(s) == [none |-> FALSE, data |-> s]

\* __call__ appending the parameters to the URI whatever the action is
BuildRequest_ParamsInUri(self, kwargs) ==
    LET uri    == self.uri \o self.method
        params == urlencode(kwargs)
        uri2   == IF params # <<>> THEN uri \o <<"&">> \o params ELSE uri
    IN  [uri          |-> uri2 \o OutputJson,
         headers      |-> IF StartsWith(self.method, PrivatePrefix)
                          THEN << <<"Authorization", BasicPrefix \o FormatS(self.authz)>> >>
                          ELSE <<>>,
         message_body |-> IF self.action = "GET" THEN None ELSE Data(params)]

\* the request __call__ builds: the Request object (uri, headers) and the
\* message body it passes to urlopen with it
BuildRequest(self, kwargs) ==
    LET uri    == self.uri \o self.method
        params == urlencode(kwargs)
        uri2   == IF self.action = "GET" /\ params # <<>>
                  THEN uri \o <<"&">> \o params
                  ELSE uri
    IN  [uri          |-> uri2 \o OutputJson,
         headers      |-> IF StartsWith(self.method, PrivatePrefix)
                          THEN << <<"Authorization", BasicPrefix \o FormatS(self.authz)>> >>
                          ELSE <<>>,
         message_body |-> IF self.action = "GET" THEN None ELSE Data(params)]

\* urllib's urlopen(req, message_body) through the installed opener, when
\* the server answers with resp (status 0: the connection failed).  wire is
\* the sequence of HTTP requests put on the connection, and out how urlopen
\* ends: it returns the response body or raises.
urlopen(req, resp) ==
    IF ~req.message_body.none /\ py = 3
    THEN \* Python 3 refuses a str as POST data before it connects
         [wire |-> <<>>, out |-> Raise("TypeError")]
    ELSE LET sent == [verb    |-> IF req.message_body.none THEN "GET" ELSE "POST",
                      uri     |-> req.uri,
                      headers |-> req.headers,
                      body    |-> req.message_body]
             out  == IF resp.status = 0 THEN Raise("URLError")
                     ELSE IF resp.status = 200 THEN Return(resp.body)
                     ELSE IF resp.status = 400 /\ opener.handler = "HelpSpotHandler"
                     THEN http_error_400(resp.body)
                     ELSE Raise("HTTPError")
         IN  [wire |-> <<sent>>, out |-> out]

\* how __call__ ends once urlopen has ended with r
ReadResponse(r) ==
    IF r.exc # "" THEN r
    ELSE LET data == json_loads(r.val)
         IN  IF data.exc # "" THEN Raise(data.exc) ELSE Return(data.val)

-----------------------------------------------------------------------------
(* The inputs the model draws from. *)

\* the arguments of HelpSpot(uri, user, password, debuglevel)
ClientArgs ==
    { [uri |-> <<"h","t","t","p",":","/","/","d","/","h","e","l","p","/","/">>, user |-> <<"b","o">>,
       password |-> <<"p","w","1">>, debuglevel |-> 0],
      [uri |-> <<"h","t","t","p",":","/","/","e">>, user |-> <<"a","n","n">>,
       password |-> <<"x">>, debuglevel |-> 1] }

\* the attribute names looked up on a client
Names ==
    { <<"v","e","r","s","i","o","n">>,
      <<"p","r","i","v","a","t","e","_","r","e","q","u","e","s","t","_","u","p","d","a","t","e">>,
      <<"a","_","_","b","_">> }

\* a wider choice of attribute names: the Python spelling of every method of
\* _POST_METHODS, and names that are not in it
MethodNames ==
    Names \cup
    { <<"r","e","q","u","e","s","t","_","c","r","e","a","t","e">>,
      <<"r","e","q","u","e","s","t","_","u","p","d","a","t","e">>,
      <<"f","o","r","u","m","s","_","c","r","e","a","t","e","T","o","p","i","c">>,
      <<"f","o","r","u","m","s","_","c","r","e","a","t","e","P","o","s","t">>,
      <<"p","r","i","v","a","t","e","_","r","e","q","u","e","s","t","_","c","r","e","a","t","e">>,
      <<"p","r","i","v","a","t","e","_","r","e","q","u","e","s","t","_","u","p","d","a","t","e">>,
      <<"p","r","i","v","a","t","e","_","r","e","q","u","e","s","t","_","a","d","d","T","i","m","e","E","v","e","n","t">>,
      <<"p","r","i","v","a","t","e","_","r","e","q","u","e","s","t","_","d","e","l","e","t","e","T","i","m","e","E","v","e","n","t">>,
      <<"p","r","i","v","a","t","e","_","r","e","q","u","e","s","t","_","m","e","r","g","e">>,
      <<"p","r","i","v","a","t","e","_","r","e","q","u","e","s","t","_","u","n","s","u","b","s","c","r","i","b","e">>,
      <<"v","e","r","s","i","o","n">>,
      <<"p","r","i","v","a","t","e","_","v","e","r","s","i","o","n">>,
      <<"p","r","i","v","a","t","e","e","r","_","l","i","s","t">>,
      <<"p","r","i","v","a","t","e">>,
      <<"r","e","q","u","e","s","t","_","g","e","t">>,
      <<"p","r","i","v","a","t","e","_","r","e","q","u","e","s","t","_","g","e","t">>,
      <<"f","o","r","u","m","s","_","c","r","e","a","t","e","T","o","p","i","c","s">>,
      <<"R","e","q","u","e","s","t","_","c","r","e","a","t","e">> }

\* the keyword arguments of a call
Kwargs ==
    { <<>>,
      << <<<<"x","R","e","q","u","e","s","t">>, <<"1","2">>>>, <<<<"b","_","c">>, <<"x","/","=">>>> >> }

\* a wider choice of keyword arguments
MoreKwargs ==
    Kwargs \cup
    { << <<<<"a">>, <<"1"," ","&","2">>>> >>,
      << <<<<"b">>, <<>>>>, <<<<"a">>, <<"%","+">>>> >> }

NotJson == [parses |-> FALSE, value |-> JNull]
Json(x) == [parses |-> TRUE, value |-> x]

BadToken == [description |-> JStr(<<"B","a","d"," ","t","o","k","e","n">>), id |-> JInt(42)]
NoRequest == [description |-> JStr(<<"N","o"," ","r","e","q","u","e","s","t">>), id |-> JInt(7)]

SuccessBodies ==
    { Json(JDict([version |-> JStr(<<"1", ".", "0">>)])),
      Json(JList(<<JInt(1)>>)),
      NotJson }

ErrorBodies ==
    { Json(JDict([error |-> JList(<<JDict(BadToken)>>)])),
      Json(JDict([error |-> JList(<<JDict(NoRequest), JDict(BadToken)>>)])),
      Json(JDict([error |-> JList(<<>>)])),
      Json(JDict([error |-> JStr(<<>>)])),
      Json(JDict(<<>>)),
      Json(JDict([error |-> JList(<<JDict([id |-> JInt(1)])>>)])),
      Json(JDict([error |-> JList(<<JDict([description |-> JStr(<<"x">>)])>>)])),
      Json(JList(<<>>)),
      NotJson }

\* what the server does with a request: status 0 is a failed connection
Responses ==
    { [status |-> 0, body |-> NotJson],
      [status |-> 200, body |-> Json(JDict([version |-> JStr(<<"1", ".", "0">>)]))],
      [status |-> 400, body |-> Json(JDict([error |-> JList(<<JDict(BadToken)>>)]))],
      [status |-> 400, body |-> Json(JDict(<<>>))],
      [status |-> 500, body |-> Json(JDict([error |-> JList(<<JDict(BadToken)>>)]))] }

\* a wider choice of server behaviour
MoreResponses ==
    Responses
    \cup [status : {200}, body : SuccessBodies]
    \cup [status : {400}, body : ErrorBodies]
    \cup [status : {404}, body : {NotJson}]

-----------------------------------------------------------------------------
(* The state machine. *)

\* urllib's default opener, used until one is installed
DefaultOpener == [handler |-> "HTTPHandler", debuglevel |-> 0, client |-> 0]

\* __init__ installing its opener only when none is installed yet
HelpSpot__init__KeepOpener(uri, user, password, debuglevel) ==
    /\ Len(clients) + Len(invokers) < MaxObjects
    /\ clients' = Append(clients, [uri |-> uri, user |-> user, password |-> password])
    /\ opener' = IF opener = DefaultOpener
                 THEN [handler |-> "HelpSpotHandler", debuglevel |-> debuglevel,
                       client |-> Len(clients) + 1]
                 ELSE opener
    /\ UNCHANGED <<py, invokers, resolved, last>>

\* __call__ keeping the URI it built in self.uri
HelpSpotAPI__call__KeepUri(i, kwargs, resp) ==
    LET self == invokers[i]
        req  == BuildRequest(self, kwargs)
        r    == urlopen(req, resp)
    IN  /\ last' = [called |-> TRUE, invoker |-> i, self |-> self, kwargs |-> kwargs,
                    req |-> req, resp |-> resp, wire |-> r.wire,
                    opener |-> opener, out |-> ReadResponse(r.out)]
        /\ invokers' = [invokers EXCEPT ![i].uri = req.uri]
        /\ UNCHANGED <<py, clients, opener, resolved>>

Init ==
    /\ py \in {2, 3}
    /\ clients = <<>>
    /\ opener = DefaultOpener
    /\ invokers = <<>>
    /\ resolved = [done |-> FALSE]
    /\ last = [called |-> FALSE]

\* hs = HelpSpot(uri, user, password, debuglevel)
HelpSpot__init__(uri, user, password, debuglevel) ==
    /\ Len(clients) + Len(invokers) < MaxObjects
    /\ clients' = Append(clients, [uri |-> uri, user |-> user, password |-> password])
    /\ opener' = [handler |-> "HelpSpotHandler", debuglevel |-> debuglevel,
                  client |-> Len(clients) + 1]
    /\ UNCHANGED <<py, invokers, resolved, last>>

\* hs.key, for client hs = clients[c] and a name that is not an attribute of it
HelpSpot__getattr__(c, key) ==
    /\ Len(clients) + Len(invokers) < MaxObjects
    /\ invokers' = Append(invokers,
                     HelpSpotAPI__init__(key, clients[c].user, clients[c].password,
                                         clients[c].uri))
    /\ resolved' = [done |-> TRUE, client |-> c, key |-> key,
                    invoker |-> Len(invokers) + 1]
    /\ UNCHANGED <<py, clients, opener, last>>

\* invokers[i](**kwargs), answered by the server with resp
HelpSpotAPI__call__(i, kwargs, resp) ==
    LET self == invokers[i]
        req  == BuildRequest(self, kwargs)
        r    == urlopen(req, resp)
    IN  /\ last' = [called |-> TRUE, invoker |-> i, self |-> self, kwargs |-> kwargs,
                    req |-> req, resp |-> resp, wire |-> r.wire,
                    opener |-> opener, out |-> ReadResponse(r.out)]
        /\ UNCHANGED <<py, clients, opener, invokers, resolved>>

Next ==
    \/ \E a \in ClientArgs : HelpSpot__init__(a.uri, a.user, a.password, a.debuglevel)
    \/ \E c \in 1..Len(clients), key \in Names : HelpSpot__getattr__(c, key)
    \/ \E i \in 1..Len(invokers), kwargs \in Kwargs, resp \in Responses :
           HelpSpotAPI__call__(i, kwargs, resp)

Spec == Init /\ [][Next]_vars

\* One client, one attribute of it, and any number of calls of that
\* attribute, over the wider choice of names, arguments and responses.
NextCall ==
    \/ \E a \in ClientArgs :
           clients = <<>> /\ HelpSpot__init__(a.uri, a.user, a.password, a.debuglevel)
    \/ \E key \in MethodNames :
           clients # <<>> /\ invokers = <<>> /\ HelpSpot__getattr__(1, key)
    \/ \E kwargs \in MoreKwargs, resp \in MoreResponses :
           invokers # <<>> /\ HelpSpotAPI__call__(1, kwargs, resp)

SpecCall == Init /\ [][NextCall]_vars

-----------------------------------------------------------------------------
(* Reading a query string back: what the server's form decoder makes of it. *)

Chr(n) == Ascii[n - 31]

HexVal(c) == (CHOOSE i \in 1..Len(HexDigits) : HexDigits[i] = c) - 1

\* the position of the first c in s, 0 when there is none
RECURSIVE Find(_, _, _)
Find(s, c, from) ==
    IF from > Len(s) THEN 0
    ELSE IF s[from] = c THEN from
    ELSE Find(s, c, from + 1)

\* s.split(c)
RECURSIVE Split(_, _)
Split(s, c) ==
    LET at == Find(s, c, 1)
    IN  IF at = 0 THEN <<s>>
        ELSE <<SubSeq(s, 1, at - 1)>> \o Split(SubSeq(s, at + 1, Len(s)), c)

\* unquote_plus
RECURSIVE Unquote(_)
Unquote(s) ==
    IF s = <<>> THEN <<>>
    ELSE IF s[1] = "%" /\ Len(s) >= 3
    THEN <<Chr(16 * HexVal(s[2]) + HexVal(s[3]))>> \o Unquote(SubSeq(s, 4, Len(s)))
    ELSE IF s[1] = "+" THEN <<" ">> \o Unquote(Tail(s))
    ELSE <<s[1]>> \o Unquote(Tail(s))

\* the <<name, value>> pair of one name=value field
ParseField(f) ==
    LET at == Find(f, "=", 1)
    IN  IF at = 0 THEN <<Unquote(f), <<>>>>
        ELSE <<Unquote(SubSeq(f, 1, at - 1)), Unquote(SubSeq(f, at + 1, Len(f)))>>

\* the fields of a query string or form body, in order
ParseQs(q) ==
    IF q = <<>> THEN <<>>
    ELSE LET fields == Split(q, "&")
         IN  [i \in 1..Len(fields) |-> ParseField(fields[i])]

\* the part of a URI after its first "?"
QueryOf(uri) == SubSeq(uri, Find(uri, "?", 1) + 1, Len(uri))

Range(q) == {q[i] : i \in 1..Len(q)}

\* the response of the last call reached urlopen's caller or handlers
Answered == last.called /\ Len(last.wire) = 1

-----------------------------------------------------------------------------
(* The claims. *)

\* C1: a call object selects POST exactly when its wire-form method name is
\* one of _POST_METHODS, and the request a call submits carries a body, and
\* so is sent as POST, exactly when POST was selected.
C1_VerbAndBody ==
    last.called =>
        /\ (last.self.action = "POST") <=> InList(last.self.method, _POST_METHODS)
        /\ last.self.action \in {"GET", "POST"}
        /\ Len(last.wire) = 1
        /\ last.wire[1].verb = last.self.action
        /\ (~last.wire[1].body.none) <=> (last.self.action = "POST")

\* C2: the request has an Authorization header exactly when the wire-form
\* method name starts with "private.", and its value is then "Basic "
\* followed by the base64 encoding of user:password.
C2_Authorization ==
    last.called =>
        LET private == /\ Len(last.self.method) >= 8
                       /\ SubSeq(last.self.method, 1, 8) = <<"p","r","i","v","a","t","e",".">>
        IN  /\ (last.req.headers # <<>>) <=> private
            /\ private =>
                 last.req.headers =
                    << <<"Authorization",
                         <<"B","a","s","i","c"," ">> \o
                         b64encode(last.self.user \o <<":">> \o last.self.password)>> >>

\* C3: a GET call puts every keyword parameter into the query string and
\* has no body; a POST call puts every keyword parameter into the body, and
\* its query string holds only method=<wire name> and output=json.
C3_ParamsPlacement ==
    last.called =>
        LET query  == ParseQs(QueryOf(last.req.uri))
            method == <<<<"m","e","t","h","o","d">>, last.self.method>>
            output == <<<<"o","u","t","p","u","t">>, <<"j","s","o","n">>>>
        IN  IF last.self.action = "GET"
            THEN /\ last.req.message_body.none
                 /\ Range(last.kwargs) \subseteq Range(query)
                 /\ Range(query) = {method, output} \cup Range(last.kwargs)
            ELSE /\ ~last.req.message_body.none
                 /\ ParseQs(last.req.message_body.data) = last.kwargs
                 /\ query = <<method, output>>

\* C3 witness: a POST call with two keyword parameters.
C3_Witness ==
    /\ last.called
    /\ last.self.action = "POST"
    /\ Len(last.kwargs) = 2

\* the first element of the error array of a well-formed 400 body
HasErrorDetails(body) ==
    /\ body.parses
    /\ body.value.t = "dict"
    /\ "error" \in DOMAIN body.value.v
    /\ body.value.v["error"].t = "list"
    /\ Len(body.value.v["error"].v) > 0
    /\ body.value.v["error"].v[1].t = "dict"
    /\ {"description", "id"} \subseteq DOMAIN body.value.v["error"].v[1].v

\* C4: a 400 response whose body is {"error": [{"description": D, "id": I},
\* ...]} makes the call fail with a HelpSpotError whose err_mesg is D and
\* whose err_id is I, of the first element of the array.
C4_ErrorDetails ==
    (Answered /\ last.resp.status = 400 /\ HasErrorDetails(last.resp.body)) =>
        /\ last.out.exc = "HelpSpotError"
        /\ last.out.err_mesg = last.resp.body.value.v["error"].v[1].v["description"]
        /\ last.out.err_id = last.resp.body.value.v["error"].v[1].v["id"]

\* C4 witness: a 400 response with two errors ended in a HelpSpotError with
\* the first one's id.
C4_Witness ==
    /\ Answered
    /\ last.resp.status = 400
    /\ HasErrorDetails(last.resp.body)
    /\ Len(last.resp.body.value.v["error"].v) = 2
    /\ last.out.exc = "HelpSpotError"
    /\ last.out.err_id = JInt(7)

EmptyErrorArray(body) ==
    /\ body.parses
    /\ body.value.t = "dict"
    /\ "error" \in DOMAIN body.value.v
    /\ body.value.v["error"] = JList(<<>>)

\* C5, as the specification states it: a 400 response with an empty error
\* array ends in an error with description "Unknown API error" and id 0.
C5_UnknownApiError ==
    (Answered /\ last.resp.status = 400 /\ EmptyErrorArray(last.resp.body)) =>
        /\ last.out.exc = "HelpSpotError"
        /\ last.out.err_mesg = JStr(<<"U","n","k","n","o","w","n"," ","A","P","I"," ","e","r","r","o","r">>)
        /\ last.out.err_id = JInt(0)

\* C5, amended: a 400 response with an empty error array ends in a
\* HelpSpotError with err_mesg "Unknown HelpSpot API error" and err_id 0.
C5_UnknownHelpSpotApiError ==
    (Answered /\ last.resp.status = 400 /\ EmptyErrorArray(last.resp.body)) =>
        /\ last.out.exc = "HelpSpotError"
        /\ last.out.err_mesg = JStr(<<"U","n","k","n","o","w","n"," ","H","e","l","p","S","p","o","t"," ","A","P","I"," ","e","r","r","o","r">>)
        /\ last.out.err_id = JInt(0)

\* C5 witness: a call answered with 400 and an empty error array.
C5_Witness ==
    /\ Answered
    /\ last.resp.status = 400
    /\ EmptyErrorArray(last.resp.body)
    /\ last.out.exc = "HelpSpotError"

\* C6: whatever the body of a 400 response is, the call ends in a
\* HelpSpotError, with the generic description and id 0 when the body has no
\* error details.
C6_AlwaysHelpSpotError ==
    (Answered /\ last.resp.status = 400) =>
        /\ last.out.exc = "HelpSpotError"
        /\ ~HasErrorDetails(last.resp.body) => last.out.err_id = JInt(0)

\* C7: every call submits exactly one request; a successful response
\* returns the decoded body, a 400 status ends in a HelpSpotError, and any
\* other failure ends in a transport error.
C7_OneRequestOneOutcome ==
    last.called =>
        /\ Len(last.wire) = 1
        /\ (last.resp.status = 200 /\ last.resp.body.parses) =>
               (last.out.exc = "" /\ last.out.val = last.resp.body.value)
        /\ last.resp.status = 400 => last.out.exc = "HelpSpotError"
        /\ last.resp.status \notin {200, 400} => last.out.exc \in {"URLError", "HTTPError"}

\* what an attribute access must have made: a call object whose method is
\* the name with a dot for every underscore, with the client's user and
\* password, and the client's URI without trailing slashes before the API path
ResolvedRight ==
    LET inv    == invokers[resolved.invoker]
        hs     == clients[resolved.client]
        prefix == SubSeq(inv.uri, 1, Len(inv.uri) - Len(ApiPath))
    IN  /\ Len(inv.method) = Len(resolved.key)
        /\ \A i \in 1..Len(resolved.key) :
              inv.method[i] = IF resolved.key[i] = "_" THEN "." ELSE resolved.key[i]
        /\ resolved.key = <<"p","r","i","v","a","t","e","_","r","e","q","u","e","s","t","_","u","p","d","a","t","e">> =>
              inv.method = <<"p","r","i","v","a","t","e",".","r","e","q","u","e","s","t",".","u","p","d","a","t","e">>
        /\ inv.user = hs.user
        /\ inv.password = hs.password
        /\ Len(inv.uri) >= Len(ApiPath)
        /\ SubSeq(inv.uri, Len(prefix) + 1, Len(inv.uri)) = <<"/","a","p","i","/","i","n","d","e","x",".","p","h","p","?","m","e","t","h","o","d","=">>
        /\ (prefix = <<>> \/ prefix[Len(prefix)] # "/")
        /\ SubSeq(hs.uri, 1, Len(prefix)) = prefix
        /\ \A i \in (Len(prefix) + 1)..Len(hs.uri) : hs.uri[i] = "/"

\* C8: every attribute access on a client makes a new call object for the
\* name, sends nothing, and the object has the name's wire form and the
\* client's user, password and endpoint; the access is possible for every
\* name.
C8_Resolve ==
    /\ [][resolved' # resolved =>
            /\ Len(invokers') = Len(invokers) + 1
            /\ SubSeq(invokers', 1, Len(invokers)) = invokers
            /\ resolved'.invoker = Len(invokers')
            /\ ResolvedRight'
            /\ last' = last
            /\ UNCHANGED <<clients, opener>>]_vars
    /\ [](Len(clients) + Len(invokers) < MaxObjects =>
            \A c \in 1..Len(clients), key \in Names : ENABLED HelpSpot__getattr__(c, key))

\* C8 witness: the second access to private_request_update made a second
\* call object, equal to the first.
C8_Witness ==
    /\ resolved.done
    /\ resolved.invoker = 2
    /\ resolved.key = <<"p","r","i","v","a","t","e","_","r","e","q","u","e","s","t","_","u","p","d","a","t","e">>
    /\ invokers[1] = invokers[2]

\* C9: constructing a client sends nothing and installs its opener; the
\* opener in place is the one of the client constructed last, and it is the
\* one that handles every call, whichever client the call object came from.
C9_LastOpenerWins ==
    [][/\ clients' # clients =>
            /\ last' = last
            /\ invokers' = invokers
            /\ opener'.handler = "HelpSpotHandler"
       /\ clients' # <<>> => opener'.client = Len(clients')
       /\ last' # last => (last'.opener = opener' /\ last'.opener.client = Len(clients))]_vars

\* C9 witness: a call on a call object of the first client was handled by
\* the opener of the second.
C9_Witness ==
    /\ last.called
    /\ Len(clients) = 2
    /\ clients[1].user # clients[2].user
    /\ last.self.user = clients[1].user
    /\ last.opener.client = 2

\* C10: a call leaves the call object as it was, and a call with the
\* parameters of the call before it on the same object builds the same URI,
\* body and headers.
C10_InvokerImmutable ==
    [][last' # last =>
          /\ invokers' = invokers
          /\ invokers'[last'.invoker] = last'.self
          /\ (last.called /\ last'.invoker = last.invoker /\ last'.kwargs = last.kwargs)
                => last'.req = last.req]_vars

\* C10 witness: a call with parameters failed and the call object is as it
\* was before the call.
C10_Witness ==
    /\ last.called
    /\ last.kwargs # <<>>
    /\ last.out.exc # ""
    /\ invokers[last.invoker] = last.self

=============================================================================
